---- MODULE Spec2Model ----
(***************************************************************************)
(* Admission control of the Social Insecurity web application:            *)
(* the POST cooldown gate (routes.py, rate_limit_post_requests), the       *)
(* upload sliding window (routes.py, stream) and the login-attempt check   *)
(* (routes.py, index), over the three process-wide maps last_post_times,   *)
(* upload_history and login_attempts.                                      *)
(*                                                                         *)
(* Time.  time.time() is a float number of seconds.  The model's clock     *)
(* counts ticks of 1/TicksPerMs millisecond, so that a reading of the      *)
(* clock can fall between two whole milliseconds.  The gate works on       *)
(* time.time() * 1000 (milliseconds), the upload window and the login      *)
(* check on time.time() (seconds); every comparison of the code is made    *)
(* here on ticks, multiplied out so that no fraction is lost.              *)
(***************************************************************************)
EXTENDS Integers, Sequences, FiniteSets, TLC

VARIABLES
    clock,            \* the reading time.time() would return now, in ticks
    last_post_times,  \* routes.py:21  identity -> time of last admitted POST
    upload_history,   \* routes.py:22  user id -> sequence of upload times
    login_attempts,   \* routes.py:23  username -> [attempts, last_attempt]
    session,          \* flask session of each client: its user_id, or NoUser
    posts,            \* number of rows sqlite.create_post has inserted
    resp,             \* the response to the request served at this instant
    fails,            \* history: consecutive failed password checks per username
    lastfail,         \* history: time of the last failed password check per username
    denied_uploads,   \* history: the identities whose last POST admitted by the
                      \* gate was an upload the window denied
    pc,               \* threaded server: where each worker thread is in its handler
    req,              \* threaded server: the request each worker thread serves
    loc,              \* threaded server: the handler's local variables
    served            \* threaded server: number of requests taken up so far

vars == <<clock, last_post_times, upload_history, login_attempts, session,
          posts, resp, fails, lastfail, denied_uploads, pc, req, loc, served>>

----------------------------------------------------------------------------
(* Configuration, config.py *)

COOLDOWN_MS == 1000
UPLOAD_LIMIT == 5
UPLOAD_WINDOW == 60
MAX_LOGIN_ATTEMPTS == 5
LOGIN_COOLDOWN == 3600

----------------------------------------------------------------------------
(* Bounds of the model *)

\* resolution of the clock: ticks per millisecond
TicksPerMs == 2
\* the number of requests the threaded server takes up
MaxRequests == 7
\* the clock's reading when the process starts, in milliseconds; time.time()
\* is seconds since 1970, so the default 0 of the maps is further back than
\* any cooldown or window
StartMs == 100000

Ms(n) == n * TicksPerMs
Sec(n) == n * 1000 * TicksPerMs

Start == Ms(StartMs)

\* the instants, after Start, at which requests arrive
Offsets ==
    { 0, 1, Ms(1000), Ms(2000), Ms(3000), Ms(4000), Ms(5000),
      Sec(UPLOAD_WINDOW) - 1, Sec(UPLOAD_WINDOW) }

Instants == { Start + o : o \in Offsets }

\* the instants at which the clock is read in the threaded server
ThreadedInstants == { Start + o : o \in { 0, 1, Ms(1000), Ms(2000) } }

Clients == { "c1" }
Users == { "alice" }
Usernames == Users \cup { "mallory" }
NoUser == "anonymous"

\* request.remote_addr of a client
Addr(c) == IF c = "c1" THEN "10.0.0.1" ELSE "10.0.0.2"
\* Users.id of a registered username (an integer in the database; written
\* as a string here, distinct from every address as 1 is from "10.0.0.1")
UserId(u) == IF u = "alice" THEN "1" ELSE "2"

----------------------------------------------------------------------------
(* Helpers *)

\* dict.get(k, d)
Get(m, k, d) == IF k \in DOMAIN m THEN m[k] ELSE d

\* m[k] = v
Put(m, k, v) == [x \in DOMAIN m \cup {k} |-> IF x = k THEN v ELSE m[x]]

EmptyMap == [x \in {} |-> 0]

\* what the model keeps of a response: the client served, the outcome, the
\* wait_time of a 429 of the gate, the username of a login submission and
\* the run of failed password checks of that username that preceded it
NoResp == [client |-> "-", outcome |-> "none", wait |-> 0, user |-> "-",
           after |-> 0]

Resp(c, o, w) == [client |-> c, outcome |-> o, wait |-> w, user |-> "-",
                  after |-> 0]

LoginResp(c, o, u) ==
    [client |-> c, outcome |-> o, wait |-> 0, user |-> u,
     after |-> IF u \in DOMAIN fails THEN fails[u] ELSE 0]

\* is_logged_in()
is_logged_in(c) == session[c] # NoUser

\* a gate keyed by the network address alone
IdentityAddrOnly(c) == Addr(c)

\* the key of the cooldown gate: routes.py:46-49
Identity(c) == IF is_logged_in(c) THEN session[c] ELSE Addr(c)

----------------------------------------------------------------------------
(* The cooldown gate: rate_limit_post_requests, routes.py:41-58 *)

\* routes.py:52  last_time = last_post_times.get(user_id, 0)
LastTime(lpt, id) == Get(lpt, id, 0)

\* a gate that still denies when exactly COOLDOWN_MS have passed
GateDeniedInclusive(last, now) == now - last <= Ms(COOLDOWN_MS)

\* routes.py:53  now - last_time < COOLDOWN_MS, with now = time.time() * 1000
GateDenied(last, now) == now - last < Ms(COOLDOWN_MS)

\* routes.py:54  int(COOLDOWN_MS - (now - last_time)): int() drops the fraction
\* of a millisecond (the value is positive whenever the gate denies)
WaitTime(last, now) == (Ms(COOLDOWN_MS) - (now - last)) \div TicksPerMs

\* routes.py:58  last_post_times[user_id] = now
GateAdmit(lpt, id, now) == Put(lpt, id, now)

----------------------------------------------------------------------------
(* The upload window: stream, routes.py:156-169 *)

\* a window that still counts an upload exactly UPLOAD_WINDOW seconds old
InWindowInclusive(t, now) == now - t <= Sec(UPLOAD_WINDOW)

\* routes.py:161  [t for t in timestamps if now - t < UPLOAD_WINDOW]
InWindow(t, now) == now - t < Sec(UPLOAD_WINDOW)

Prune(ts, now) == SelectSeq(ts, LAMBDA t : InWindow(t, now))

\* routes.py:160-161
Timestamps(uh, id, now) == Prune(Get(uh, id, <<>>), now)

\* a window that denies one upload too late
UploadDeniedOffByOne(ts) == Len(ts) > UPLOAD_LIMIT

\* routes.py:163  len(timestamps) >= upload_limit
UploadDenied(ts) == Len(ts) >= UPLOAD_LIMIT

\* routes.py:168-169  timestamps.append(now); upload_history[user_id] = timestamps
UploadAdmit(uh, id, ts, now) == Put(uh, id, Append(ts, now))

----------------------------------------------------------------------------
(* The login-attempt check: index, routes.py:87-104 *)

\* routes.py:92  login_attempts.get(username, {}).get("attempts", 0)
Attempts(la, u) == IF u \in DOMAIN la THEN la[u].attempts ELSE 0

\* routes.py:92  ... >= MAX_LOGIN_ATTEMPTS
LockedOut(la, u) == Attempts(la, u) >= MAX_LOGIN_ATTEMPTS

\* routes.py:93  last_attempt < time.time() + LOGIN_COOLDOWN
StillLocked(la, u, now) == la[u].last_attempt < now + Sec(LOGIN_COOLDOWN)

\* routes.py:96-99
ResetAttempts(la, u) == Put(la, u, [attempts |-> 0, last_attempt |-> 0])

\* a handler that counts the failed check
RecordFailureCounts(la, u, now) ==
    Put(la, u, [attempts |-> Attempts(la, u) + 1, last_attempt |-> now])

\* routes.py:100-101  a failed check_password_hash: what the handler writes to
\* login_attempts (it flashes the warning and writes nothing)
RecordFailure(la, u, now) == la

\* routes.py:70-104: the login form of index(), for client c submitting
\* username u; filled: both fields are given; pwok: check_password_hash holds.
\* The result: login_attempts, the client's session and the outcome.
Login(c, u, filled, pwok, now) ==
    LET keep(o) == [la |-> login_attempts, sess |-> session[c], outcome |-> o] IN
    IF is_logged_in(c) THEN keep("redirect")
    ELSE IF ~filled THEN keep("fill_fields")
    ELSE IF u \notin Users THEN keep("login_wrong")
    ELSE IF LockedOut(login_attempts, u)
         THEN IF StillLocked(login_attempts, u, now)
              THEN keep("login_locked")
              ELSE [la |-> ResetAttempts(login_attempts, u), sess |-> session[c],
                    outcome |-> "login_reset"]
    ELSE IF ~pwok
         THEN [la |-> RecordFailure(login_attempts, u, now), sess |-> session[c],
               outcome |-> "login_wrong"]
    ELSE [la |-> login_attempts, sess |-> UserId(u), outcome |-> "login_ok"]

\* history of the password checks: the run of failures of each username
FailsAfter(u, o) ==
    IF o = "login_ok" THEN [fails EXCEPT ![u] = 0]
    ELSE IF o = "login_wrong" /\ u \in Users THEN [fails EXCEPT ![u] = @ + 1]
    ELSE fails

\* and the time of the last failure of that run (0: the run is empty)
LastFailAfter(u, o, now) ==
    IF o = "login_ok" THEN [lastfail EXCEPT ![u] = 0]
    ELSE IF o = "login_wrong" /\ u \in Users THEN [lastfail EXCEPT ![u] = now]
    ELSE lastfail

----------------------------------------------------------------------------
(* stream(), routes.py:124-179, for a POST of client c to /stream/<target>;  *)
(* file: "none", "image" (an allowed extension) or "badext"; now: the       *)
(* reading of the clock at routes.py:158.  The result: upload_history, the  *)
(* number of posts and the outcome.                                         *)

Stream(c, target, file, now) ==
    LET keep(o) == [uh |-> upload_history, posts |-> posts, outcome |-> o]
        id == session[c]
        ts == Timestamps(upload_history, id, now)
    IN
    IF ~is_logged_in(c) THEN keep("redirect")
    ELSE IF target \notin Users \/ session[c] # UserId(target) THEN keep("redirect")
    ELSE IF file = "badext" THEN keep("illegal_ext")
    ELSE IF file = "image"
         THEN IF UploadDenied(ts)
              THEN keep("too_many_uploads")
              ELSE [uh |-> UploadAdmit(upload_history, id, ts, now),
                    posts |-> posts + 1, outcome |-> "post_created"]
    ELSE [uh |-> upload_history, posts |-> posts + 1, outcome |-> "post_created"]

----------------------------------------------------------------------------
(* The server handling one request at a time *)

Files == { "none", "image", "badext" }

ThreadIds == { "t1", "t2" }

NoReq == [client |-> "-", file |-> "none"]
NoLoc == [id |-> "-", now |-> 0, last_time |-> 0, timestamps |-> <<>>]

Init ==
    /\ clock = Start
    /\ last_post_times = EmptyMap
    /\ upload_history = EmptyMap
    /\ login_attempts = EmptyMap
    /\ session = [c \in Clients |-> NoUser]
    /\ posts = 0
    /\ resp = NoResp
    /\ fails = [u \in Users |-> 0]
    /\ lastfail = [u \in Users |-> 0]
    /\ denied_uploads = {}
    /\ pc = [t \in ThreadIds |-> "idle"]
    /\ req = [t \in ThreadIds |-> NoReq]
    /\ loc = [t \in ThreadIds |-> NoLoc]
    /\ served = 0

thr == <<pc, req, loc, served>>
hist == <<fails, lastfail, denied_uploads>>
logins == <<fails, lastfail>>

\* history of the gate: what the POST it admitted under key id went on to do
DeniedUploadsAfter(id, o) ==
    IF o = "too_many_uploads" THEN denied_uploads \cup {id}
    ELSE denied_uploads \ {id}

\* time passes until the next request arrives
Tick ==
    /\ \E t \in Instants : t > clock /\ clock' = t
    /\ resp' = NoResp
    /\ UNCHANGED <<last_post_times, upload_history, login_attempts, session,
                   posts, hist, thr>>

\* a request with a method other than POST: routes.py:43-44
GetRequest(c) ==
    /\ resp' = Resp(c, "get", 0)
    /\ UNCHANGED <<clock, last_post_times, upload_history, login_attempts,
                   session, posts, hist, thr>>

\* GET /logout: routes.py:301-305
Logout(c) ==
    /\ session' = [session EXCEPT ![c] = NoUser]
    /\ resp' = Resp(c, "get", 0)
    /\ UNCHANGED <<clock, last_post_times, upload_history, login_attempts,
                   posts, hist, thr>>

\* a gate that records the time of a denied POST as well
RejectedRecordsTime(c) ==
    /\ resp' = Resp(c, "rate_limited",
                    WaitTime(LastTime(last_post_times, Identity(c)), clock))
    /\ last_post_times' = GateAdmit(last_post_times, Identity(c), clock)
    /\ UNCHANGED <<clock, upload_history, login_attempts, session, posts,
                   hist, thr>>

\* the response of the gate to a denied POST: routes.py:53-57
Rejected(c) ==
    /\ resp' = Resp(c, "rate_limited",
                    WaitTime(LastTime(last_post_times, Identity(c)), clock))
    /\ UNCHANGED <<clock, last_post_times, upload_history, login_attempts,
                   session, posts, hist, thr>>

\* POST / with the login form
PostLogin(c, u, filled, pwok) ==
    IF GateDenied(LastTime(last_post_times, Identity(c)), clock)
    THEN Rejected(c)
    ELSE LET r == Login(c, u, filled, pwok, clock) IN
         /\ last_post_times' = GateAdmit(last_post_times, Identity(c), clock)
         /\ login_attempts' = r.la
         /\ session' = [session EXCEPT ![c] = r.sess]
         /\ fails' = FailsAfter(u, r.outcome)
         /\ lastfail' = LastFailAfter(u, r.outcome, clock)
         /\ denied_uploads' = DeniedUploadsAfter(Identity(c), r.outcome)
         /\ resp' = LoginResp(c, r.outcome, u)
         /\ UNCHANGED <<clock, upload_history, posts, thr>>

\* a server that runs stream() before it asks the gate
PostStreamRouteFirst(c, target, file) ==
    LET r == Stream(c, target, file, clock)
        denied == GateDenied(LastTime(last_post_times, Identity(c)), clock) IN
    /\ last_post_times' = IF denied THEN last_post_times
                          ELSE GateAdmit(last_post_times, Identity(c), clock)
    /\ upload_history' = r.uh
    /\ posts' = r.posts
    /\ resp' = IF denied
               THEN Resp(c, "rate_limited",
                         WaitTime(LastTime(last_post_times, Identity(c)), clock))
               ELSE Resp(c, r.outcome, 0)
    /\ denied_uploads' = IF denied THEN denied_uploads
                         ELSE DeniedUploadsAfter(Identity(c), r.outcome)
    /\ UNCHANGED <<clock, login_attempts, session, logins, thr>>

\* a server whose gate records the time of a POST only once the upload
\* window has let it through
PostStreamRecordsOnSuccess(c, target, file) ==
    IF GateDenied(LastTime(last_post_times, Identity(c)), clock)
    THEN Rejected(c)
    ELSE LET r == Stream(c, target, file, clock) IN
         /\ last_post_times' = IF r.outcome = "too_many_uploads"
                               THEN last_post_times
                               ELSE GateAdmit(last_post_times, Identity(c), clock)
         /\ upload_history' = r.uh
         /\ posts' = r.posts
         /\ resp' = Resp(c, r.outcome, 0)
         /\ denied_uploads' = DeniedUploadsAfter(Identity(c), r.outcome)
         /\ UNCHANGED <<clock, login_attempts, session, logins, thr>>

\* POST /stream/<target>; the request is served within one instant, so the
\* clock reads the same at routes.py:51 and at routes.py:158
PostStream(c, target, file) ==
    IF GateDenied(LastTime(last_post_times, Identity(c)), clock)
    THEN Rejected(c)
    ELSE LET r == Stream(c, target, file, clock) IN
         /\ last_post_times' = GateAdmit(last_post_times, Identity(c), clock)
         /\ upload_history' = r.uh
         /\ posts' = r.posts
         /\ resp' = Resp(c, r.outcome, 0)
         /\ denied_uploads' = DeniedUploadsAfter(Identity(c), r.outcome)
         /\ UNCHANGED <<clock, login_attempts, session, logins, thr>>

\* POST to any other form: register, comments, friends, profile
PostOther(c) ==
    IF GateDenied(LastTime(last_post_times, Identity(c)), clock)
    THEN Rejected(c)
    ELSE /\ last_post_times' = GateAdmit(last_post_times, Identity(c), clock)
         /\ resp' = Resp(c, "other_ok", 0)
         /\ denied_uploads' = DeniedUploadsAfter(Identity(c), "other_ok")
         /\ UNCHANGED <<clock, upload_history, login_attempts, session, posts,
                        logins, thr>>

Next ==
    \/ Tick
    \/ \E c \in Clients : GetRequest(c)
    \/ \E c \in Clients : Logout(c)
    \/ \E c \in Clients, u \in Usernames, filled \in BOOLEAN, pwok \in BOOLEAN :
          PostLogin(c, u, filled, pwok)
    \/ \E c \in Clients, target \in Usernames, file \in Files :
          PostStream(c, target, file)
    \/ \E c \in Clients : PostOther(c)

Spec == Init /\ [][Next]_vars

----------------------------------------------------------------------------
(* The threaded server: each worker thread serves one request at a time, *)
(* and the threads interleave between their reads and writes of the maps. *)
(* No lock guards last_post_times, upload_history or login_attempts.      *)

seq == <<session, login_attempts, hist>>

\* thread t is done with its request
Done(t) ==
    /\ pc' = [pc EXCEPT ![t] = "idle"]
    /\ req' = [req EXCEPT ![t] = NoReq]
    /\ loc' = [loc EXCEPT ![t] = NoLoc]

\* routes.py:43-52: a POST of client c to /stream/alice arrives at thread t,
\* which reads the identity, the clock and the identity's last admitted time
GateRead(t, c, file) ==
    /\ pc[t] = "idle"
    /\ served < MaxRequests
    /\ served' = served + 1
    /\ req' = [req EXCEPT ![t] = [client |-> c, file |-> file]]
    /\ loc' = [loc EXCEPT ![t] = [NoLoc EXCEPT
                  !.id = Identity(c), !.now = clock,
                  !.last_time = LastTime(last_post_times, Identity(c))]]
    /\ pc' = [pc EXCEPT ![t] = "gate"]
    /\ UNCHANGED <<clock, last_post_times, upload_history, posts, resp, seq>>

\* routes.py:53-57: the gate denies
GateReject(t) ==
    /\ pc[t] = "gate"
    /\ GateDenied(loc[t].last_time, loc[t].now)
    /\ resp' = Resp(req[t].client, "rate_limited",
                    WaitTime(loc[t].last_time, loc[t].now))
    /\ Done(t)
    /\ UNCHANGED served
    /\ UNCHANGED <<clock, last_post_times, upload_history, posts, seq>>

\* routes.py:58: the gate admits
GateWrite(t) ==
    /\ pc[t] = "gate"
    /\ ~GateDenied(loc[t].last_time, loc[t].now)
    /\ last_post_times' = GateAdmit(last_post_times, loc[t].id, loc[t].now)
    /\ pc' = [pc EXCEPT ![t] = "route"]
    /\ denied_uploads' = denied_uploads \ {loc[t].id}
    /\ UNCHANGED <<clock, upload_history, posts, resp, req, loc, served,
                   session, login_attempts, logins>>

\* routes.py:133-154, 174-179: stream() on the paths that do not reach the
\* upload window
StreamRoute(t) ==
    /\ pc[t] = "route"
    /\ ~(is_logged_in(req[t].client) /\ req[t].file = "image")
    /\ LET c == req[t].client
           r == Stream(c, "alice", req[t].file, clock) IN
       /\ posts' = r.posts
       /\ resp' = Resp(c, r.outcome, 0)
    /\ Done(t)
    /\ UNCHANGED served
    /\ UNCHANGED <<clock, last_post_times, upload_history, seq>>

\* routes.py:156-162: stream() reads the clock and the user's timestamps
UploadRead(t) ==
    /\ pc[t] = "route"
    /\ is_logged_in(req[t].client) /\ req[t].file = "image"
    /\ LET id == session[req[t].client] IN
       loc' = [loc EXCEPT ![t] = [@ EXCEPT
                  !.id = id, !.now = clock,
                  !.timestamps = Timestamps(upload_history, id, clock)]]
    /\ pc' = [pc EXCEPT ![t] = "upload"]
    /\ UNCHANGED <<clock, last_post_times, upload_history, posts, resp, req,
                   served, seq>>

\* routes.py:163-167: the window denies
UploadReject(t) ==
    /\ pc[t] = "upload"
    /\ UploadDenied(loc[t].timestamps)
    /\ resp' = Resp(req[t].client, "too_many_uploads", 0)
    /\ denied_uploads' = denied_uploads \cup {loc[t].id}
    /\ Done(t)
    /\ UNCHANGED served
    /\ UNCHANGED <<clock, last_post_times, upload_history, posts, session,
                   login_attempts, logins>>

\* routes.py:168-179: the window admits, the post is created
UploadWrite(t) ==
    /\ pc[t] = "upload"
    /\ ~UploadDenied(loc[t].timestamps)
    /\ upload_history' = UploadAdmit(upload_history, loc[t].id,
                                     loc[t].timestamps, loc[t].now)
    /\ posts' = posts + 1
    /\ resp' = Resp(req[t].client, "post_created", 0)
    /\ Done(t)
    /\ UNCHANGED served
    /\ UNCHANGED <<clock, last_post_times, seq>>

\* time passes while the threads run
TickThreaded ==
    /\ \E t \in ThreadedInstants : t > clock /\ clock' = t
    /\ UNCHANGED <<last_post_times, upload_history, posts, resp, thr, seq>>

\* the server once alice has logged in from c1 at Start (PostLogin)
InitThreaded ==
    /\ clock = Start
    /\ last_post_times = GateAdmit(EmptyMap, Addr("c1"), Start)
    /\ upload_history = EmptyMap
    /\ login_attempts = EmptyMap
    /\ session = [c \in Clients |-> IF c = "c1" THEN UserId("alice") ELSE NoUser]
    /\ posts = 0
    /\ fails = [u \in Users |-> 0]
    /\ lastfail = [u \in Users |-> 0]
    /\ denied_uploads = {}
    /\ resp = LoginResp("c1", "login_ok", "alice")
    /\ pc = [t \in ThreadIds |-> "idle"]
    /\ req = [t \in ThreadIds |-> NoReq]
    /\ loc = [t \in ThreadIds |-> NoLoc]
    /\ served = 0

NextThreaded ==
    \/ TickThreaded
    \/ \E t \in ThreadIds, c \in Clients, file \in Files : GateRead(t, c, file)
    \/ \E t \in ThreadIds : GateReject(t)
    \/ \E t \in ThreadIds : GateWrite(t)
    \/ \E t \in ThreadIds : StreamRoute(t)
    \/ \E t \in ThreadIds : UploadRead(t)
    \/ \E t \in ThreadIds : UploadReject(t)
    \/ \E t \in ThreadIds : UploadWrite(t)

SpecThreaded == InitThreaded /\ [][NextThreaded]_vars

----------------------------------------------------------------------------
(* Properties *)

\* the outcomes of a request with method POST
PostOutcomes ==
    { "rate_limited", "too_many_uploads", "post_created", "illegal_ext",
      "redirect", "fill_fields", "login_wrong", "login_locked", "login_reset",
      "login_ok", "other_ok" }

\* this step serves a POST of client c
PostStep(c) == resp'.outcome \in PostOutcomes /\ resp'.client = c

\* the key the gate is to use for client c
KeyOf(c) == IF session[c] = NoUser THEN Addr(c) ELSE session[c]

\* ticks left of the cooldown of key k at time now
Remaining(k, now) == Ms(COOLDOWN_MS) - (now - last_post_times[k])

\* C1 as stated: for any identity with a POST admitted at t1, the next POST
\* at t2 > t1 is denied with wait_ms = COOLDOWN_MS - (t2 - t1) when
\* t2 - t1 < COOLDOWN_MS, and is admitted when t2 - t1 >= COOLDOWN_MS.
C1_CooldownExactWait ==
    [][\A c \in Clients :
         (PostStep(c) /\ KeyOf(c) \in DOMAIN last_post_times
                      /\ clock > last_post_times[KeyOf(c)])
         => IF Remaining(KeyOf(c), clock) > 0
            THEN /\ resp'.outcome = "rate_limited"
                 /\ resp'.wait * TicksPerMs = Remaining(KeyOf(c), clock)
            ELSE /\ resp'.outcome # "rate_limited"
                 /\ last_post_times'[KeyOf(c)] = clock]_vars

\* C1 amended: the same, with wait_ms the whole milliseconds of
\* COOLDOWN_MS - (t2 - t1): the fraction of a millisecond is dropped.
C1_CooldownMonotonicity ==
    [][\A c \in Clients :
         (PostStep(c) /\ KeyOf(c) \in DOMAIN last_post_times
                      /\ clock > last_post_times[KeyOf(c)])
         => IF Remaining(KeyOf(c), clock) > 0
            THEN /\ resp'.outcome = "rate_limited"
                 /\ resp'.wait \in Nat
                 /\ resp'.wait * TicksPerMs <= Remaining(KeyOf(c), clock)
                 /\ Remaining(KeyOf(c), clock) < (resp'.wait + 1) * TicksPerMs
                 /\ last_post_times' = last_post_times
            ELSE /\ resp'.outcome # "rate_limited"
                 /\ last_post_times'[KeyOf(c)] = clock]_vars

\* a POST denied a fraction of a millisecond after the admitted one
C1_Witness ==
    /\ resp.outcome = "rate_limited"
    /\ clock = Start + 1
    /\ last_post_times[Addr(resp.client)] = Start
    /\ resp.wait = COOLDOWN_MS - 1

\* the timestamps of ts within the UPLOAD_WINDOW seconds that end at time T
WithinTrailing(ts, T) ==
    { i \in 1..Len(ts) : ts[i] <= T /\ T - ts[i] < Sec(UPLOAD_WINDOW) }

\* C2: for every identity, the upload timestamps recorded for it within any
\* trailing UPLOAD_WINDOW-second interval never number more than UPLOAD_LIMIT.
C2_SlidingWindowBounded ==
    \A id \in DOMAIN upload_history : \A T \in Instants :
        Cardinality(WithinTrailing(upload_history[id], T)) <= UPLOAD_LIMIT

\* the window is full again after its oldest upload has left it: the upload
\* at Start + UPLOAD_WINDOW is admitted once the one at Start is dropped
C2_Witness ==
    /\ resp.outcome = "post_created"
    /\ clock = Start + Sec(UPLOAD_WINDOW)
    /\ UserId("alice") \in DOMAIN upload_history
    /\ Len(upload_history[UserId("alice")]) = UPLOAD_LIMIT
    /\ upload_history[UserId("alice")][1] > Start
    /\ upload_history[UserId("alice")][UPLOAD_LIMIT] = clock

\* the lockout of the specification: MAX_LOGIN_ATTEMPTS failed password checks
\* in a row for username u, the last of them less than LOGIN_COOLDOWN ago
Locked(u) == fails[u] >= MAX_LOGIN_ATTEMPTS

Expired(u) == clock >= lastfail[u] + Sec(LOGIN_COOLDOWN)

\* this step serves a login submission for username u that reached index()
LoginStep(u) ==
    /\ resp'.outcome \in { "login_ok", "login_wrong", "login_locked", "login_reset" }
    /\ resp'.user = u

\* C3: every failed password check for a username increments its attempts and
\* sets last_attempt = now, so MAX_LOGIN_ATTEMPTS failures in a row leave it
\* locked (attempts = MAX_LOGIN_ATTEMPTS) and the next submission is denied.
C3_LockoutThreshold ==
    [][\A u \in Users :
         /\ fails'[u] = fails[u] + 1
            => /\ Attempts(login_attempts', u) = Attempts(login_attempts, u) + 1
               /\ login_attempts'[u].last_attempt = clock
         /\ (fails'[u] = MAX_LOGIN_ATTEMPTS /\ fails[u] < MAX_LOGIN_ATTEMPTS)
            => Attempts(login_attempts', u) = MAX_LOGIN_ATTEMPTS
         /\ (Locked(u) /\ LoginStep(u)) => resp'.outcome = "login_locked"]_vars

\* C4: once a username is locked, a login submission at
\* now >= last_attempt + LOGIN_COOLDOWN resets attempts to 0 and evaluates the
\* credentials in that same submission; one strictly before remains denied.
C4_LockoutExpiry ==
    [][\A u \in Users :
         (Locked(u) /\ LoginStep(u))
         => IF Expired(u)
            THEN /\ resp'.outcome \in { "login_ok", "login_wrong" }
                 /\ Attempts(login_attempts', u)
                       = (IF resp'.outcome = "login_ok" THEN 0 ELSE 1)
            ELSE /\ resp'.outcome = "login_locked"
                 /\ fails'[u] = fails[u]
                 /\ login_attempts' = login_attempts]_vars

\* C5: a denial of the gate leaves last_post_times as it was, and a denial of
\* the upload window leaves upload_history as it was.
C5_DenyPathInvariance ==
    [][/\ resp'.outcome = "rate_limited" => last_post_times' = last_post_times
       /\ resp'.outcome = "too_many_uploads" => upload_history' = upload_history]_vars

\* a sixth upload within the window was denied and the five are still recorded
C5_Witness ==
    /\ resp.outcome = "too_many_uploads"
    /\ Len(upload_history[UserId("alice")]) = UPLOAD_LIMIT
    /\ upload_history[UserId("alice")][1] = Start
    /\ last_post_times[UserId("alice")] = clock

\* C6: in the threaded server two concurrent uploads of one identity are never
\* both admitted into the last free slot of the window: an upload that saw
\* one free slot is admitted only if the slot is still free when it is admitted.
C6_NoDoubleAdmission ==
    [][\A t \in ThreadIds :
         (/\ pc[t] = "upload" /\ pc'[t] = "idle"
          /\ resp'.outcome = "post_created"
          /\ Len(loc[t].timestamps) = UPLOAD_LIMIT - 1)
         => Cardinality(WithinTrailing(Get(upload_history, loc[t].id, <<>>),
                                       loc[t].now)) < UPLOAD_LIMIT]_vars

\* C7: in the threaded server a POST is admitted only when COOLDOWN_MS have
\* passed since the identity's last admitted POST: two concurrent POSTs less
\* than COOLDOWN_MS apart are never both admitted.
C7_GateIndivisible ==
    [][\A t \in ThreadIds :
         (pc[t] = "gate" /\ pc'[t] = "route")
         => loc[t].now - Get(last_post_times, loc[t].id, 0) >= Ms(COOLDOWN_MS)]_vars

\* C8: while a username is locked and the lockout has not expired, no login
\* submission for it establishes a session, whatever the password.
C8_LockedNoSession ==
    [][\A u \in Users : \A c \in Clients :
         (Locked(u) /\ ~Expired(u) /\ session[c] = NoUser)
         => session'[c] # UserId(u)]_vars

\* C9: every POST, on any route, logged in or not, passes the gate under the
\* key of its actor (the user id when logged in, else the address) and no
\* other key changes; a request with another method changes no limiter map.
C9_EveryPostGated ==
    [][/\ \A c \in Clients :
            PostStep(c)
            => /\ IF clock - Get(last_post_times, KeyOf(c), 0) < Ms(COOLDOWN_MS)
                  THEN resp'.outcome = "rate_limited"
                  ELSE /\ resp'.outcome # "rate_limited"
                       /\ KeyOf(c) \in DOMAIN last_post_times'
                       /\ last_post_times'[KeyOf(c)] = clock
               /\ \A k \in DOMAIN last_post_times' \ {KeyOf(c)} :
                     k \in DOMAIN last_post_times
                     /\ last_post_times'[k] = last_post_times[k]
       /\ resp'.outcome = "get"
            => UNCHANGED <<last_post_times, upload_history, login_attempts>>]_vars

\* a logged-in client is denied under its user id while its address, last
\* admitted before it logged in, is past its cooldown
C9_Witness ==
    /\ resp.outcome = "rate_limited"
    /\ session[resp.client] = UserId("alice")
    /\ clock - last_post_times[UserId("alice")] < Ms(COOLDOWN_MS)
    /\ clock - last_post_times[Addr(resp.client)] >= Ms(COOLDOWN_MS)

\* C10: a POST the gate denies reaches no route: it leaves upload_history and
\* login_attempts unchanged, establishes no session and creates no post.
C10_GateFirst ==
    [][\A c \in Clients :
         (PostStep(c) /\ clock - Get(last_post_times, KeyOf(c), 0) < Ms(COOLDOWN_MS))
         => /\ resp'.outcome = "rate_limited"
            /\ UNCHANGED <<upload_history, login_attempts, session, posts, fails>>]_vars

\* a logged-in client's second post within the cooldown was denied: one post
\* exists and the window holds the one upload
C10_Witness ==
    /\ resp.outcome = "rate_limited"
    /\ resp.wait = COOLDOWN_MS
    /\ session[resp.client] = UserId("alice")
    /\ posts = 1
    /\ UserId("alice") \in DOMAIN upload_history
    /\ Len(upload_history[UserId("alice")]) = 1

UploadCheckStep(c) ==
    /\ resp'.client = c
    /\ \/ resp'.outcome = "too_many_uploads"
       \/ resp'.outcome = "post_created" /\ upload_history' # upload_history

\* the upload check of this step agrees with counting the recorded timestamps
\* in `counted` (indices of ts): it denies exactly when they number
\* UPLOAD_LIMIT or more, and on admitting it records them, in order, and now
ChecksAgainst(ts, counted, new) ==
    IF Cardinality(counted) >= UPLOAD_LIMIT
    THEN resp'.outcome = "too_many_uploads"
    ELSE /\ resp'.outcome = "post_created"
         /\ Len(new) = Cardinality(counted) + 1
         /\ new[Len(new)] = clock
         /\ \A j \in 1..(Len(new) - 1) : \E i \in counted : ts[i] = new[j]

\* C12 as stated: an upload check at time now counts exactly the recorded
\* timestamps t >= now - UPLOAD_WINDOW: one exactly UPLOAD_WINDOW seconds old
\* is still counted.
C12_PruningInclusive ==
    [][\A c \in Clients :
         UploadCheckStep(c)
         => LET ts == Get(upload_history, session[c], <<>>) IN
            ChecksAgainst(ts,
                { i \in 1..Len(ts) : ts[i] >= clock - Sec(UPLOAD_WINDOW) },
                upload_history'[session[c]])]_vars

\* C12 amended: an upload check at time now counts exactly the recorded
\* timestamps t > now - UPLOAD_WINDOW: one exactly UPLOAD_WINDOW seconds old,
\* or older, is not counted.
C12_WindowPruning ==
    [][\A c \in Clients :
         UploadCheckStep(c)
         => LET ts == Get(upload_history, session[c], <<>>) IN
            ChecksAgainst(ts,
                { i \in 1..Len(ts) : ts[i] > clock - Sec(UPLOAD_WINDOW) },
                upload_history'[session[c]])]_vars

\* an upload just short of UPLOAD_WINDOW seconds after the first of five is
\* denied: the first is still counted
C12_Witness ==
    /\ resp.outcome = "too_many_uploads"
    /\ clock = Start + Sec(UPLOAD_WINDOW) - 1
    /\ Len(upload_history[UserId("alice")]) = UPLOAD_LIMIT
    /\ upload_history[UserId("alice")][1] = Start

\* C13: an upload that passes the gate and is then denied by the window has
\* been recorded as its identity's last admitted POST, so the identity's next
\* POST less than COOLDOWN_MS after it is denied by the gate.
C13_DeniedUploadTakesSlot ==
    [][/\ resp'.outcome = "too_many_uploads"
          => /\ KeyOf(resp'.client) \in DOMAIN last_post_times'
             /\ last_post_times'[KeyOf(resp'.client)] = clock
       /\ \A c \in Clients :
            (/\ PostStep(c)
             /\ KeyOf(c) \in denied_uploads
             /\ clock - last_post_times[KeyOf(c)] < Ms(COOLDOWN_MS))
            => resp'.outcome = "rate_limited"]_vars

\* a POST that arrived a fraction of a millisecond after a denied upload of
\* the same user is denied by the gate
C13_Witness ==
    /\ resp.outcome = "rate_limited"
    /\ session[resp.client] = UserId("alice")
    /\ UserId("alice") \in denied_uploads
    /\ clock = last_post_times[UserId("alice")] + 1
    /\ Len(upload_history[UserId("alice")]) = UPLOAD_LIMIT

====
